---- MODULE Spec2Model ----
(***************************************************************************)
(* A state-machine model of LRUC::LRUCache (src/cache.h): a               *)
(* tbb::concurrent_hash_map from keys to {value_, listNode_}, a doubly     *)
(* linked recency list between the sentinels head_ and tail_ guarded by    *)
(* listMutex_, and the atomic counter current_size_.  Every public         *)
(* operation is cut into steps at its synchronisation points, so that any  *)
(* interleaving of the threads' steps is an execution of the code.         *)
(***************************************************************************)
EXTENDS Integers, Sequences, FiniteSets, TLC

\* ---- bounds of the model ----
NumThreads == 2
NumKeys == 3
NumVals == 2
MaxCapacity == 2
\* the number of calls the concurrent clients make in one run
MaxCalls == 4

\* ---- program constants ----
\* reinterpret_cast<ListNode*>(-1): "this node is not in the list"
NullNodePtr == -1
\* the C++ null pointer; also used for "no thread" and "no key"
nullptr == 0

Threads == 1..NumThreads
Keys == 1..NumKeys
Vals == 1..NumVals
\* the single-threaded client uses one key more than the largest capacity, so that any
\* cache overflows
STKeys == 1..(MaxCapacity + 1)
NumAllKeys == IF NumKeys > MaxCapacity + 1 THEN NumKeys ELSE MaxCapacity + 1
\* the node addresses: for each key, one for its map entry and one for each thread that
\* may still hold a handle to an earlier node of that key
NumNodes == NumAllKeys * (NumThreads + 1)
NodeIds == 1..NumNodes
\* the addresses of the two sentinels, &head_ and &tail_
HeadNode == NumNodes + 1
TailNode == NumNodes + 2

VARIABLES
  hash_map_,      \* key -> [listNode_, value_]; DOMAIN = the keys present
  nodes,          \* address -> [prev_, next_, key_]: the ListNode objects and the sentinels
  current_size_,  \* std::atomic<int>
  capacity_,      \* const int, set by the constructor
  listMutex_,     \* the thread holding the list mutex, or nullptr
  acc,            \* per thread: the map accessor (per-key lock) it holds
  th,             \* per thread: position in its operation and its locals
  hist            \* history of the clients' calls (not program state)

vars == <<hash_map_, nodes, current_size_, capacity_, listMutex_, acc, th, hist>>

\* ---- IntrusiveHashTable (src/intrusive.h) ----
\* A second program of the repository: a hash table of bucket chains threaded through the
\* nodes themselves.  It is used by one thread; every public member function is one step.
VARIABLES
  table,          \* ValueType**: the bucket array (bucket -> head of chain), or NullTable
  bucketCount,    \* std::size_t
  usedBuckets,    \* std::size_t: the number of items
  allowDupKeys,   \* bool
  htNext,         \* per node: HashTableNode::htNext
  htKeyHash,      \* per node: HashTableNode::htKeyHash
  hthist          \* history of the calls made on the table (not program state)

htvars == <<table, bucketCount, usedBuckets, allowDupKeys, htNext, htKeyHash, hthist>>

\* the nodes the client owns
NumHTNodes == 3
HTNodes == 1..NumHTNodes
\* the largest maxItems passed to findAllMatching
MaxItems == 2
\* the number of calls the client makes on the table in one run
MaxHTCalls == 5

\* static constexpr std::size_t DefaultCapacity
DefaultCapacity == 2053

\* a call that does not return: a loop that runs forever, or a failed assert
NoReturn == -2

\* table == nullptr
NullTable == <<>>

\* KeyHasher()(key) for the integral keys of the client (std::hash<int>: the value itself)
KeyHasher(key) == key
\* the keys the client uses: 1 and 3 share a bucket of a 2-bucket table, 1 and
\* DefaultCapacity + 1 share a bucket of a default table
HTKeys == {1, 3, DefaultCapacity + 1}
\* the size hints the client passes to allocate
SizeHints == {0, 1, 2, 3, 25, 49}

\* the table object together with the client's nodes
This ==
  [table |-> table, bucketCount |-> bucketCount, usedBuckets |-> usedBuckets,
   allowDupKeys |-> allowDupKeys, htNext |-> htNext, htKeyHash |-> htKeyHash]

\* IntrusiveHashTable(allowDuplicateKeys), and HashTableNode() for every node
IntrusiveHashTable(allowDuplicateKeys) ==
  [table |-> NullTable, bucketCount |-> 0, usedBuckets |-> 0,
   allowDupKeys |-> allowDuplicateKeys,
   htNext |-> [n \in HTNodes |-> nullptr], htKeyHash |-> [n \in HTNodes |-> 0]]

isLinkedToHashTable(s, n) == s.htKeyHash[n] # 0
isAllocated(s) == s.table # NullTable /\ s.bucketCount # 0
isEmpty(s) == s.usedBuckets = 0
getSize(s) == s.usedBuckets
hashOf(key) == KeyHasher(key)
bucketOf(s, keyHash) == keyHash % s.bucketCount

\* the for loop of isPrime
RECURSIVE isPrimeLoop(_, _)
isPrimeLoop(x, k) ==
  IF 36 * k * k - 12 * k < x
  THEN IF (x % (6 * k + 1) = 0) \/ (x % (6 * k - 1) = 0)
       THEN FALSE
       ELSE isPrimeLoop(x, k + 1)
  ELSE TRUE

\* a variant of isPrime without the loop
isPrimeNoLoop(x) == ~(((x % 2 = 0) /\ x # 2) \/ (x < 2) \/ (x % 3 = 0 /\ x # 3))

isPrime(x) ==
  IF ((x % 2 = 0) /\ x # 2) \/ (x < 2) \/ (x % 3 = 0 /\ x # 3)
  THEN FALSE
  ELSE isPrimeLoop(x, 1)

\* while (!isPrime(bucketCount)) ++bucketCount;
RECURSIVE FirstPrime(_)
FirstPrime(x) == IF isPrime(x) THEN x ELSE FirstPrime(x + 1)

\* allocate(sizeHint)
allocate(s, sizeHint) ==
  IF isAllocated(s) THEN s
  ELSE LET n == FirstPrime(sizeHint)
       IN  [s EXCEPT !.bucketCount = n, !.table = [b \in 0..(n - 1) |-> nullptr]]

\* the chain from item, by htNext
RECURSIVE ChainNodes(_, _, _)
ChainNodes(s, item, fuel) ==
  IF item = nullptr \/ fuel = 0 THEN {}
  ELSE {item} \cup ChainNodes(s, s.htNext[item], fuel - 1)

\* the heads of the non-null buckets
Heads(s) == {s.table[b] : b \in DOMAIN s.table} \ {nullptr}

\* clear(): every item met on the walk of every bucket's chain is reset (a walk takes
\* item->htNext before it resets the item, and ends at an item reset before); the
\* bucket array itself is not written
clear(s) ==
  IF isEmpty(s) THEN s
  ELSE LET reset == UNION {ChainNodes(s, h, NumHTNodes) : h \in Heads(s)}
       IN  [s EXCEPT !.htNext = [n \in HTNodes |-> IF n \in reset THEN nullptr ELSE @[n]],
                     !.htKeyHash = [n \in HTNodes |-> IF n \in reset THEN 0 ELSE @[n]],
                     !.usedBuckets = 0]

\* deallocate()
deallocate(s) ==
  IF ~isAllocated(s) THEN s
  ELSE [clear(s) EXCEPT !.table = NullTable, !.bucketCount = 0]

\* setAllowDuplicateKeys(allow)
setAllowDuplicateKeys(s, allow) == [s EXCEPT !.allowDupKeys = allow]

\* the loop of find (and of insert's scan for an equal hash): the first item of the chain
\* with the hash; a chain that closes on itself without such an item is walked forever
RECURSIVE FindLoop(_, _, _, _)
FindLoop(s, item, keyHash, fuel) ==
  IF item = nullptr THEN nullptr
  ELSE IF keyHash = s.htKeyHash[item] THEN item
  ELSE IF fuel = 0 THEN NoReturn
  ELSE FindLoop(s, s.htNext[item], keyHash, fuel - 1)

\* find(key)
find(s, key) ==
  IF isEmpty(s) THEN nullptr
  ELSE LET keyHash == hashOf(key)
       IN  FindLoop(s, s.table[bucketOf(s, keyHash)], keyHash, NumHTNodes)

\* the loop of countAllMatching
RECURSIVE CountLoop(_, _, _, _, _)
CountLoop(s, item, keyHash, foundCount, fuel) ==
  IF item = nullptr THEN foundCount
  ELSE IF fuel = 0 THEN NoReturn
  ELSE CountLoop(s, s.htNext[item], keyHash,
                 IF keyHash = s.htKeyHash[item] THEN foundCount + 1 ELSE foundCount,
                 fuel - 1)

\* countAllMatching(key)
countAllMatching(s, key) ==
  IF isEmpty(s) THEN 0
  ELSE LET keyHash == hashOf(key)
       IN  CountLoop(s, s.table[bucketOf(s, keyHash)], keyHash, 0, NumHTNodes)

\* the loop of findAllMatching; items is the part of items[] written so far
RECURSIVE FindAllLoop(_, _, _, _, _, _)
FindAllLoop(s, item, keyHash, items, maxItems, fuel) ==
  IF item = nullptr THEN [ret |-> Len(items), items |-> items]
  ELSE IF fuel = 0 THEN [ret |-> NoReturn, items |-> items]
  ELSE LET written == IF keyHash = s.htKeyHash[item] THEN Append(items, item) ELSE items
       IN  IF Len(written) = maxItems
           THEN [ret |-> Len(written), items |-> written]
           ELSE FindAllLoop(s, s.htNext[item], keyHash, written, maxItems, fuel - 1)

\* findAllMatching(key, items, maxItems), maxItems # 0
findAllMatching(s, key, maxItems) ==
  IF isEmpty(s) THEN [ret |-> 0, items |-> <<>>]
  ELSE LET keyHash == hashOf(key)
       IN  FindAllLoop(s, s.table[bucketOf(s, keyHash)], keyHash, <<>>, maxItems,
                       NumHTNodes * (maxItems + 1))

\* a variant of the duplicate test that never finds a duplicate
NoDuplicate(s, item, keyHash, fuel) == nullptr

\* insert's scan of the chain for an item with the same hash
ScanForDuplicate(s, item, keyHash, fuel) == FindLoop(s, item, keyHash, fuel)

\* a variant of the linking that appends the value behind the head of the chain
LinkBehindHead(s, bucket, keyHash, value) ==
  LET head == s.table[bucket]
  IN  IF head = nullptr
      THEN [s EXCEPT !.htKeyHash[value] = keyHash, !.htNext[value] = nullptr,
                     !.table[bucket] = value]
      ELSE [s EXCEPT !.htKeyHash[value] = keyHash, !.htNext[value] = s.htNext[head],
                     !.htNext[head] = value]

\* value->htKeyHash = keyHash; value->htNext = table[bucket]; table[bucket] = value
\* (for an empty chain table[bucket] is null, and the code writes htNext = nullptr)
LinkAtHead(s, bucket, keyHash, value) ==
  [s EXCEPT !.htKeyHash[value] = keyHash, !.htNext[value] = s.table[bucket],
            !.table[bucket] = value]

\* insert(key, value), value not linked: [s: the table afterwards, ret: 1 true / 0 false]
insert(s, key, value) ==
  LET a == allocate(s, DefaultCapacity)
      keyHash == hashOf(key)
      bucket == bucketOf(a, keyHash)
      dup == IF a.table[bucket] # nullptr /\ ~a.allowDupKeys
             THEN ScanForDuplicate(a, a.table[bucket], keyHash, NumHTNodes)
             ELSE nullptr
  IN  IF dup = NoReturn THEN [s |-> a, ret |-> NoReturn]
      ELSE IF dup # nullptr THEN [s |-> a, ret |-> 0]
      ELSE [s |-> [LinkAtHead(a, bucket, keyHash, value) EXCEPT !.usedBuckets = @ + 1],
            ret |-> 1]

\* a variant of the unlinking that forgets to count
ForgetItem(s, bucket, previous, item) ==
  LET next == s.htNext[item]
      a == IF previous # nullptr THEN [s EXCEPT !.htNext[previous] = next]
           ELSE IF next = nullptr THEN [s EXCEPT !.table[bucket] = nullptr]
           ELSE [s EXCEPT !.table[bucket] = next]
  IN  [a EXCEPT !.htNext[item] = nullptr, !.htKeyHash[item] = 0]

\* a variant of the unlinking that leaves the item's hash as it was
UnlinkKeepsHash(s, bucket, previous, item) ==
  LET next == s.htNext[item]
      u == [s EXCEPT !.usedBuckets = @ - 1]
      a == IF previous # nullptr THEN [u EXCEPT !.htNext[previous] = next]
           ELSE IF next = nullptr THEN [u EXCEPT !.table[bucket] = nullptr]
           ELSE [u EXCEPT !.table[bucket] = next]
  IN  [a EXCEPT !.htNext[item] = nullptr]

\* --usedBuckets; the item is taken out of its chain (after previous, or at the head of
\* the bucket); item->htNext = nullptr; item->htKeyHash = 0
UnlinkItem(s, bucket, previous, item) ==
  LET next == s.htNext[item]
      u == [s EXCEPT !.usedBuckets = @ - 1]
      a == IF previous # nullptr THEN [u EXCEPT !.htNext[previous] = next]
           ELSE IF next = nullptr THEN [u EXCEPT !.table[bucket] = nullptr]
           ELSE [u EXCEPT !.table[bucket] = next]
  IN  [a EXCEPT !.htNext[item] = nullptr, !.htKeyHash[item] = 0]

\* the loop of remove
RECURSIVE RemoveLoop(_, _, _, _, _, _)
RemoveLoop(s, bucket, keyHash, previous, item, fuel) ==
  IF item = nullptr THEN [s |-> s, ret |-> nullptr]
  ELSE IF keyHash = s.htKeyHash[item]
  THEN IF previous = nullptr /\ item # s.table[bucket]
       THEN [s |-> s, ret |-> NoReturn]   \* assert(false): the chain is corrupted
       ELSE [s |-> UnlinkItem(s, bucket, previous, item), ret |-> item]
  ELSE IF fuel = 0 THEN [s |-> s, ret |-> NoReturn]
  ELSE RemoveLoop(s, bucket, keyHash, item, s.htNext[item], fuel - 1)

\* remove(key): [s: the table afterwards, ret: the removed item or nullptr]
remove(s, key) ==
  IF isEmpty(s) THEN [s |-> s, ret |-> nullptr]
  ELSE LET keyHash == hashOf(key)
           bucket == bucketOf(s, keyHash)
       IN  RemoveLoop(s, bucket, keyHash, nullptr, s.table[bucket], NumHTNodes)

\* the loop of removeAllMatching
RECURSIVE RemoveAllLoop(_, _, _, _, _, _, _)
RemoveAllLoop(s, bucket, keyHash, previous, item, removedCount, fuel) ==
  IF item = nullptr THEN [s |-> s, ret |-> removedCount]
  ELSE IF fuel = 0 THEN [s |-> s, ret |-> NoReturn]
  ELSE IF keyHash = s.htKeyHash[item]
  THEN IF previous = nullptr /\ item # s.table[bucket]
       THEN [s |-> s, ret |-> NoReturn]   \* assert(false): the chain is corrupted
       ELSE IF previous = nullptr /\ s.htNext[item] = nullptr
       THEN [s |-> UnlinkItem(s, bucket, previous, item), ret |-> removedCount + 1]
       ELSE RemoveAllLoop(UnlinkItem(s, bucket, previous, item), bucket, keyHash,
                          previous, s.htNext[item], removedCount + 1, fuel - 1)
  ELSE RemoveAllLoop(s, bucket, keyHash, item, s.htNext[item], removedCount, fuel - 1)

\* a variant of removeAllMatching that stops at the first matching item
removeFirstMatching(s, key) ==
  LET r == remove(s, key)
  IN  IF r.ret = NoReturn THEN r
      ELSE [s |-> r.s, ret |-> IF r.ret = nullptr THEN 0 ELSE 1]

\* removeAllMatching(key): [s: the table afterwards, ret: the number of items removed]
removeAllMatching(s, key) ==
  IF isEmpty(s) THEN [s |-> s, ret |-> 0]
  ELSE LET keyHash == hashOf(key)
           bucket == bucketOf(s, keyHash)
       IN  RemoveAllLoop(s, bucket, keyHash, nullptr, s.table[bucket], 0,
                         (NumHTNodes + 1) * (NumHTNodes + 1))

\* ---- the table's variables and the history of its calls ----
NoHTHist ==
  [calls |-> 0,
   last |-> [op |-> "none", key |-> nullptr, value |-> nullptr, ret |-> 0,
             wasAllocated |-> FALSE],   \* isAllocated() when the last call began
   inserted |-> <<>>,      \* the nodes inserted so far, in the order of their inserts ...
   insertsOnly |-> TRUE]   \* ... as long as no call has taken a node out of the table

\* the table object and the nodes are as in s
HTIs(s) ==
  /\ table = s.table
  /\ bucketCount = s.bucketCount
  /\ usedBuckets = s.usedBuckets
  /\ allowDupKeys = s.allowDupKeys
  /\ htNext = s.htNext
  /\ htKeyHash = s.htKeyHash

\* a member function leaves them as in s
HTBecomes(s) ==
  /\ table' = s.table
  /\ bucketCount' = s.bucketCount
  /\ usedBuckets' = s.usedBuckets
  /\ allowDupKeys' = s.allowDupKeys
  /\ htNext' = s.htNext
  /\ htKeyHash' = s.htKeyHash

\* the program that runs the cache has no hash table in use
HTUnused ==
  /\ HTIs(IntrusiveHashTable(FALSE))
  /\ hthist = NoHTHist

\* ---- ListNode ----
\* ListNode(key): prev_(NullNodePtr), next_(nullptr), key_(key)
ListNode(key) == [prev_ |-> NullNodePtr, next_ |-> nullptr, key_ |-> key]

\* unused memory is kept in the state of a default-constructed node
FreeNode == ListNode(nullptr)

inList(nd, n) == nd[n].prev_ # NullNodePtr

\* Value{value, node}
Value(value, node) == [listNode_ |-> node, value_ |-> value]

\* ---- the list primitives, on a node store nd ----
\* a variant of unlink that leaves next->prev_ as it was
unlinkForwardOnly(nd, n) ==
  LET prev == nd[n].prev_
      next == nd[n].next_
      a == [nd EXCEPT ![prev].next_ = next]
  IN  [a EXCEPT ![n].prev_ = NullNodePtr]

\* a variant of unlink that leaves the node's prev_ as it was
unlinkKeepsFlag(nd, n) ==
  LET prev == nd[n].prev_
      next == nd[n].next_
      a == [nd EXCEPT ![prev].next_ = next]
  IN  [a EXCEPT ![next].prev_ = prev]

unlink(nd, n) ==
  LET prev == nd[n].prev_
      next == nd[n].next_
      a == [nd EXCEPT ![prev].next_ = next]
      b == [a EXCEPT ![next].prev_ = prev]
  IN  [b EXCEPT ![n].prev_ = NullNodePtr]

\* a variant of append that links the node at the least recently used end
appendAfterHead(nd, n) ==
  LET first == nd[HeadNode].next_
      a == [nd EXCEPT ![n].prev_ = HeadNode]
      b == [a EXCEPT ![n].next_ = first]
      c == [b EXCEPT ![HeadNode].next_ = n]
  IN  [c EXCEPT ![first].prev_ = n]

append(nd, n) ==
  LET prevLatestNode == nd[TailNode].prev_
      a == [nd EXCEPT ![n].next_ = TailNode]
      b == [a EXCEPT ![n].prev_ = prevLatestNode]
      c == [b EXCEPT ![TailNode].prev_ = n]
  IN  [c EXCEPT ![prevLatestNode].next_ = n]

\* the list as the constructor leaves it: head_ <-> tail_, every node address unused
EmptyList ==
  [n \in NodeIds \cup {HeadNode, TailNode} |->
     IF n = HeadNode THEN [prev_ |-> nullptr, next_ |-> TailNode, key_ |-> nullptr]
     ELSE IF n = TailNode THEN [prev_ |-> HeadNode, next_ |-> nullptr, key_ |-> nullptr]
     ELSE FreeNode]

EmptyMap == [k \in {} |-> Value(nullptr, nullptr)]

\* ---- shared ownership of the nodes ----
\* a node is owned by a map entry (Value::listNode_) or by a thread's local handle;
\* popFront's raw candidate pointer keeps the address reserved in the model
Referenced(n, m, T) ==
  \/ \E k \in DOMAIN m : m[k].listNode_ = n
  \/ \E t \in Threads : T[t].node = n \/ T[t].cand = n

\* destroy the nodes whose last owner is gone
Sweep(nd, m, T) ==
  [n \in DOMAIN nd |->
     IF n \in NodeIds /\ ~Referenced(n, m, T) /\ ~inList(nd, n) THEN FreeNode ELSE nd[n]]

IsFree(n) == nodes[n] = FreeNode /\ ~Referenced(n, hash_map_, th)

\* std::make_shared<ListNode>(key): an unused address; the allocator of the model serves
\* each key from addresses of its own and takes the lowest unused one
Arena(k) == {n \in NodeIds : (n - 1) % NumAllKeys = k - 1}
NewNode(k) == CHOOSE n \in Arena(k) : IsFree(n) /\ \A m \in Arena(k) : IsFree(m) => n <= m

\* ---- the concurrent_hash_map's per-key locks ----
NoAccessor == [key |-> nullptr, mode |-> "none"]
Accessor(k, mode) == [key |-> k, mode |-> mode]

\* a const_accessor waits for a writer of the element
CanRead(t, k) == \A u \in Threads \ {t} : ~(acc[u].key = k /\ acc[u].mode = "w")
\* an accessor (or an erase) waits for every other holder of the element
CanWrite(t, k) == \A u \in Threads \ {t} : acc[u].key # k

MapErase(m, k) == [j \in DOMAIN m \ {k} |-> m[j]]
MapInsert(m, k, v) == [j \in DOMAIN m \cup {k} |-> IF j = k THEN v ELSE m[j]]

\* a variant of the map's insert that replaces an existing element
HashMapInsertOrAssign(m, k, v) == MapInsert(m, k, v)

\* concurrent_hash_map::insert(accessor, value): an existing element is left as it is
HashMapInsert(m, k, v) == IF k \in DOMAIN m THEN m ELSE MapInsert(m, k, v)

\* ---- the list, read from head_ to tail_ ----
RECURSIVE Walk(_, _, _)
Walk(nd, n, fuel) ==
  IF n = TailNode \/ n \notin DOMAIN nd \/ fuel = 0 THEN <<>>
  ELSE <<n>> \o Walk(nd, nd[n].next_, fuel - 1)

\* the list, read from tail_ to head_
RECURSIVE WalkBack(_, _, _)
WalkBack(nd, n, fuel) ==
  IF n = HeadNode \/ n \notin DOMAIN nd \/ fuel = 0 THEN <<>>
  ELSE <<n>> \o WalkBack(nd, nd[n].prev_, fuel - 1)

\* the linked nodes, least recently used first
ListNodes(nd) == Walk(nd, nd[HeadNode].next_, NumNodes + 1)
\* the nodes met from tail_ backwards, most recently used first
ListNodesBack(nd) == WalkBack(nd, nd[TailNode].prev_, NumNodes + 1)
\* their keys
ListKeys(nd) == [i \in 1..Len(ListNodes(nd)) |-> nd[ListNodes(nd)[i]].key_]

\* ---- a thread's locals ----
IdleTh ==
  [pc |-> "idle", op |-> "none", key |-> nullptr, val |-> nullptr,
   node |-> nullptr,   \* insert's node / find's and erase's found_node (shared_ptr)
   cand |-> nullptr,   \* popFront's candidate (raw pointer)
   size |-> 0,         \* insert's local size
   popped |-> FALSE, marked |-> FALSE, inserted |-> FALSE,
   lock |-> FALSE,     \* find's try-lock: whether it owns the list mutex
   after |-> "none",   \* where popFront returns to
   ret |-> 0,          \* the return value: bool as 0/1, erase's count
   out |-> nullptr]    \* ConstAccessor::value_

NoHist ==
  [calls |-> 0, order |-> <<>>, preKeys |-> {}, preSize |-> 0,
   last |-> [op |-> "none", key |-> nullptr, val |-> nullptr, ret |-> 0, popped |-> FALSE]]

Init ==
  /\ hash_map_ = EmptyMap
  /\ nodes = EmptyList
  /\ current_size_ = 0
  /\ capacity_ \in 1..MaxCapacity
  /\ listMutex_ = nullptr
  /\ acc = [t \in Threads |-> NoAccessor]
  /\ th = [t \in Threads |-> IdleTh]
  /\ hist = NoHist
  /\ HTUnused

\* ---- calling an operation and returning from it ----
Invoke(t, op, k, v, first) ==
  /\ th[t].pc = "idle"
  /\ th' = [th EXCEPT ![t] = [IdleTh EXCEPT !.pc = first, !.op = op, !.key = k, !.val = v]]
  /\ UNCHANGED <<hash_map_, nodes, current_size_, capacity_, listMutex_, acc>>
  /\ UNCHANGED htvars

\* the operation has returned th[t].ret; its locals go out of scope
Leave(t) ==
  /\ th[t].pc = "done"
  /\ th' = [th EXCEPT ![t] = IdleTh]
  /\ nodes' = Sweep(nodes, hash_map_, th')
  /\ UNCHANGED <<hash_map_, current_size_, capacity_, listMutex_, acc>>
  /\ UNCHANGED htvars

\* the concurrent clients make at most MaxCalls calls
Counted ==
  /\ hist.calls < MaxCalls
  /\ hist' = [hist EXCEPT !.calls = @ + 1]

CallInsert(t) ==
  /\ \E k \in Keys, v \in Vals : Invoke(t, "insert", k, v, "ins_map")
  /\ Counted

CallFind(t) ==
  /\ \E k \in Keys : Invoke(t, "find", k, nullptr, "find_map")
  /\ Counted

CallErase(t) ==
  /\ \E k \in Keys : Invoke(t, "erase", k, nullptr, "erase_map")
  /\ Counted

Return(t) ==
  /\ Leave(t)
  /\ UNCHANGED hist

\* ---- popFront (called by insert; returns to th[t].after) ----
\* the caller's locals after popFront has returned
PopReturn(r) ==
  IF r.after = "ins_lock"
  THEN [r EXCEPT !.pc = "ins_lock", !.cand = nullptr]
  ELSE [r EXCEPT !.pc = "done", !.ret = 1, !.cand = nullptr]

\* std::unique_lock<ListMutex> lock(listMutex_)
PopLock(t) ==
  /\ th[t].pc = "pop_lock"
  /\ listMutex_ = nullptr
  /\ listMutex_' = t
  /\ th' = [th EXCEPT ![t].pc = "pop_unlink"]
  /\ UNCHANGED <<hash_map_, nodes, current_size_, capacity_, acc, hist>>
  /\ UNCHANGED htvars

\* a variant of popFront whose lock lives to the end of the function
PopUnlinkKeepsLock(t) ==
  /\ th[t].pc = "pop_unlink"
  /\ LET candidate == nodes[HeadNode].next_ IN
       IF candidate = TailNode
       THEN /\ th' = [th EXCEPT ![t] = PopReturn(th[t])]
            /\ nodes' = nodes
            /\ listMutex_' = nullptr
       ELSE /\ th' = [th EXCEPT ![t].pc = "pop_find", ![t].cand = candidate]
            /\ nodes' = unlink(nodes, candidate)
            /\ listMutex_' = listMutex_
  /\ UNCHANGED <<hash_map_, current_size_, capacity_, acc, hist>>
  /\ UNCHANGED htvars

\* candidate = head_.next_; return if it is &tail_, else unlink it; the lock's scope ends
PopUnlink(t) ==
  /\ th[t].pc = "pop_unlink"
  /\ LET candidate == nodes[HeadNode].next_ IN
       IF candidate = TailNode
       THEN /\ th' = [th EXCEPT ![t] = PopReturn(th[t])]
            /\ nodes' = nodes
       ELSE /\ th' = [th EXCEPT ![t].pc = "pop_find", ![t].cand = candidate]
            /\ nodes' = unlink(nodes, candidate)
  /\ listMutex_' = nullptr
  /\ UNCHANGED <<hash_map_, current_size_, capacity_, acc, hist>>
  /\ UNCHANGED htvars

\* a variant of popFront that erases the key being inserted
InsertedKey(nd, r) == r.key

\* candidate->key_
CandidateKey(nd, r) == nd[r.cand].key_

\* hash_map_.find(accessor, candidate->key_)
PopFind(t) ==
  /\ th[t].pc = "pop_find"
  /\ LET k == CandidateKey(nodes, th[t]) IN
       IF k \in DOMAIN hash_map_
       THEN /\ CanRead(t, k)
            /\ acc' = [acc EXCEPT ![t] = Accessor(k, "r")]
            /\ th' = [th EXCEPT ![t].pc = "pop_erase"]
            /\ nodes' = nodes
       ELSE /\ acc' = acc
            /\ th' = [th EXCEPT ![t] = PopReturn(th[t])]
            /\ nodes' = Sweep(nodes, hash_map_, th')
  /\ UNCHANGED <<hash_map_, current_size_, capacity_, listMutex_, hist>>
  /\ UNCHANGED htvars

\* hash_map_.erase(accessor); the accessor is released
PopErase(t) ==
  /\ th[t].pc = "pop_erase"
  /\ CanWrite(t, acc[t].key)
  /\ hash_map_' = MapErase(hash_map_, acc[t].key)
  /\ acc' = [acc EXCEPT ![t] = NoAccessor]
  /\ th' = [th EXCEPT ![t] = PopReturn(th[t])]
  /\ nodes' = Sweep(nodes, hash_map_', th')
  /\ UNCHANGED <<current_size_, capacity_, listMutex_, hist>>
  /\ UNCHANGED htvars

\* ---- insert ----
\* node = make_shared<ListNode>(key); hash_map_.insert(accessor, {key, Value{value, node}})
InsertMap(t) ==
  /\ th[t].pc = "ins_map"
  /\ \E n \in Arena(th[t].key) : IsFree(n)
  /\ LET k == th[t].key
         node == NewNode(k)
     IN  /\ CanWrite(t, k)
         /\ acc' = [acc EXCEPT ![t] = Accessor(k, "w")]
         /\ nodes' = [nodes EXCEPT ![node] = ListNode(k)]
         /\ hash_map_' = HashMapInsert(hash_map_, k, Value(th[t].val, node))
         /\ th' = [th EXCEPT ![t].pc = "ins_release", ![t].node = node,
                             ![t].inserted = (k \notin DOMAIN hash_map_)]
  /\ UNCHANGED <<current_size_, capacity_, listMutex_, hist>>
  /\ UNCHANGED htvars

\* the accessor's scope ends; return false if the key existed
InsertRelease(t) ==
  /\ th[t].pc = "ins_release"
  /\ acc' = [acc EXCEPT ![t] = NoAccessor]
  /\ th' = IF th[t].inserted
           THEN [th EXCEPT ![t].pc = "ins_load"]
           ELSE [th EXCEPT ![t].pc = "done", ![t].ret = 0]
  /\ UNCHANGED <<hash_map_, nodes, current_size_, capacity_, listMutex_, hist>>
  /\ UNCHANGED htvars

\* size = current_size_.load(); if (size >= capacity_) { popFront(); popped = true; }
InsertLoad(t) ==
  /\ th[t].pc = "ins_load"
  /\ th' = IF current_size_ >= capacity_
           THEN [th EXCEPT ![t].size = current_size_, ![t].popped = TRUE,
                           ![t].after = "ins_lock", ![t].pc = "pop_lock"]
           ELSE [th EXCEPT ![t].size = current_size_, ![t].pc = "ins_lock"]
  /\ UNCHANGED <<hash_map_, nodes, current_size_, capacity_, listMutex_, acc, hist>>
  /\ UNCHANGED htvars

InsertLock(t) ==
  /\ th[t].pc = "ins_lock"
  /\ listMutex_ = nullptr
  /\ listMutex_' = t
  /\ th' = [th EXCEPT ![t].pc = "ins_append"]
  /\ UNCHANGED <<hash_map_, nodes, current_size_, capacity_, acc, hist>>
  /\ UNCHANGED htvars

\* append(node.get()); the lock's scope ends
InsertAppend(t) ==
  /\ th[t].pc = "ins_append"
  /\ nodes' = append(nodes, th[t].node)
  /\ listMutex_' = nullptr
  /\ th' = [th EXCEPT ![t].pc = "ins_inc"]
  /\ UNCHANGED <<hash_map_, current_size_, capacity_, acc, hist>>
  /\ UNCHANGED htvars

\* a variant of the counting that ignores popped
CountInsertedAlways(popped, current) == current + 1

\* if (!popped) size = current_size_++;
CountInserted(popped, current) == IF popped THEN current ELSE current + 1

\* ... then the test size > capacity_
InsertIncrement(t) ==
  /\ th[t].pc = "ins_inc"
  /\ LET size == IF th[t].popped THEN th[t].size ELSE current_size_ IN
       /\ current_size_' = CountInserted(th[t].popped, current_size_)
       /\ th' = IF size > capacity_
                THEN [th EXCEPT ![t].size = size, ![t].pc = "ins_cas"]
                ELSE [th EXCEPT ![t].size = size, ![t].pc = "done", ![t].ret = 1]
  /\ UNCHANGED <<hash_map_, nodes, capacity_, listMutex_, acc, hist>>
  /\ UNCHANGED htvars

\* if (current_size_.compare_exchange_strong(size, size - 1)) popFront();
InsertCas(t) ==
  /\ th[t].pc = "ins_cas"
  /\ IF current_size_ = th[t].size
     THEN /\ current_size_' = th[t].size - 1
          /\ th' = [th EXCEPT ![t].after = "ins_return", ![t].pc = "pop_lock"]
     ELSE /\ current_size_' = current_size_
          /\ th' = [th EXCEPT ![t].size = current_size_, ![t].pc = "done", ![t].ret = 1]
  /\ UNCHANGED <<hash_map_, nodes, capacity_, listMutex_, acc, hist>>
  /\ UNCHANGED htvars

\* ---- find ----
\* hash_map_.find(caccessor.constAccessor_, key); on a miss release and return false
FindMap(t) ==
  /\ th[t].pc = "find_map"
  /\ LET k == th[t].key IN
       IF k \in DOMAIN hash_map_
       THEN /\ CanRead(t, k)
            /\ acc' = [acc EXCEPT ![t] = Accessor(k, "r")]
            /\ th' = [th EXCEPT ![t].pc = "find_copy"]
       ELSE /\ acc' = acc
            /\ th' = [th EXCEPT ![t].pc = "done", ![t].ret = 0]
  /\ UNCHANGED <<hash_map_, nodes, current_size_, capacity_, listMutex_, hist>>
  /\ UNCHANGED htvars

\* caccessor.setValue(); found_node = ...listNode_; caccessor.constAccessor_.release()
FindCopy(t) ==
  /\ th[t].pc = "find_copy"
  /\ th' = [th EXCEPT ![t].out = hash_map_[acc[t].key].value_,
                      ![t].node = hash_map_[acc[t].key].listNode_,
                      ![t].pc = "find_trylock"]
  /\ acc' = [acc EXCEPT ![t] = NoAccessor]
  /\ UNCHANGED <<hash_map_, nodes, current_size_, capacity_, listMutex_, hist>>
  /\ UNCHANGED htvars

\* a variant of find that goes on without testing the lock
owns_lockUntested(mutex) == TRUE

\* unique_lock lock{listMutex_, try_to_lock}: if (lock) is true iff the mutex was free
owns_lock(mutex) == mutex = nullptr

\* ... if (lock) if (found_node->inList()) unlink(...); without the lock: return true
FindTryLock(t) ==
  /\ th[t].pc = "find_trylock"
  /\ IF owns_lock(listMutex_)
     THEN IF inList(nodes, th[t].node)
          THEN /\ listMutex_' = t
               /\ nodes' = unlink(nodes, th[t].node)
               /\ th' = [th EXCEPT ![t].pc = "find_append", ![t].lock = TRUE]
          ELSE /\ listMutex_' = listMutex_
               /\ nodes' = nodes
               /\ th' = [th EXCEPT ![t].pc = "done", ![t].ret = 1, ![t].lock = TRUE]
     ELSE /\ listMutex_' = listMutex_
          /\ nodes' = nodes
          /\ th' = [th EXCEPT ![t].pc = "done", ![t].ret = 1]
  /\ UNCHANGED <<hash_map_, current_size_, capacity_, acc, hist>>
  /\ UNCHANGED htvars

\* append(found_node.get()); the lock's scope ends; return true
FindAppend(t) ==
  /\ th[t].pc = "find_append"
  /\ nodes' = append(nodes, th[t].node)
  /\ listMutex_' = nullptr
  /\ th' = [th EXCEPT ![t].pc = "done", ![t].ret = 1]
  /\ UNCHANGED <<hash_map_, current_size_, capacity_, acc, hist>>
  /\ UNCHANGED htvars

\* ---- erase ----
\* hash_map_.find(accessor, key); return 0 on a miss
EraseFind(t) ==
  /\ th[t].pc = "erase_map"
  /\ LET k == th[t].key IN
       IF k \in DOMAIN hash_map_
       THEN /\ CanRead(t, k)
            /\ acc' = [acc EXCEPT ![t] = Accessor(k, "r")]
            /\ th' = [th EXCEPT ![t].pc = "erase_copy"]
       ELSE /\ acc' = acc
            /\ th' = [th EXCEPT ![t].pc = "done", ![t].ret = 0]
  /\ UNCHANGED <<hash_map_, nodes, current_size_, capacity_, listMutex_, hist>>
  /\ UNCHANGED htvars

\* found_node = accessor->second.listNode_; the accessor's scope ends
EraseCopy(t) ==
  /\ th[t].pc = "erase_copy"
  /\ th' = [th EXCEPT ![t].node = hash_map_[acc[t].key].listNode_, ![t].pc = "erase_check"]
  /\ acc' = [acc EXCEPT ![t] = NoAccessor]
  /\ UNCHANGED <<hash_map_, nodes, current_size_, capacity_, listMutex_, hist>>
  /\ UNCHANGED htvars

\* a variant of erase that removes the entry also when the node was not linked
EraseCheckThenErase(t) ==
  /\ th[t].pc = "erase_check"
  /\ th' = IF inList(nodes, th[t].node)
           THEN [th EXCEPT ![t].pc = "erase_lock"]
           ELSE [th EXCEPT ![t].pc = "erase_hash"]
  /\ UNCHANGED <<hash_map_, nodes, current_size_, capacity_, listMutex_, acc, hist>>
  /\ UNCHANGED htvars

\* if (found_node->inList()), read without the list mutex; if not: marked stays false, return 1
EraseCheck(t) ==
  /\ th[t].pc = "erase_check"
  /\ th' = IF inList(nodes, th[t].node)
           THEN [th EXCEPT ![t].pc = "erase_lock"]
           ELSE [th EXCEPT ![t].pc = "done", ![t].ret = 1]
  /\ UNCHANGED <<hash_map_, nodes, current_size_, capacity_, listMutex_, acc, hist>>
  /\ UNCHANGED htvars

EraseLock(t) ==
  /\ th[t].pc = "erase_lock"
  /\ listMutex_ = nullptr
  /\ listMutex_' = t
  /\ th' = [th EXCEPT ![t].pc = "erase_unlink"]
  /\ UNCHANGED <<hash_map_, nodes, current_size_, capacity_, acc, hist>>
  /\ UNCHANGED htvars

\* if (found_node->inList()) { unlink; current_size_--; marked = true; }  the lock's scope ends
EraseUnlink(t) ==
  /\ th[t].pc = "erase_unlink"
  /\ IF inList(nodes, th[t].node)
     THEN /\ nodes' = unlink(nodes, th[t].node)
          /\ current_size_' = current_size_ - 1
          /\ th' = [th EXCEPT ![t].marked = TRUE, ![t].pc = "erase_hash"]
     ELSE /\ nodes' = nodes
          /\ current_size_' = current_size_
          /\ th' = [th EXCEPT ![t].pc = "done", ![t].ret = 1]
  /\ listMutex_' = nullptr
  /\ UNCHANGED <<hash_map_, capacity_, acc, hist>>
  /\ UNCHANGED htvars

\* if (marked) hash_map_.erase(key): the element's write lock is taken ...
EraseHash(t) ==
  /\ th[t].pc = "erase_hash"
  /\ LET k == th[t].key IN
       IF k \in DOMAIN hash_map_
       THEN /\ CanWrite(t, k)
            /\ acc' = [acc EXCEPT ![t] = Accessor(k, "w")]
            /\ th' = [th EXCEPT ![t].pc = "erase_remove"]
       ELSE /\ acc' = acc
            /\ th' = [th EXCEPT ![t].pc = "done", ![t].ret = 1]
  /\ UNCHANGED <<hash_map_, nodes, current_size_, capacity_, listMutex_, hist>>
  /\ UNCHANGED htvars

\* ... and the element is removed and destroyed; return 1
EraseRemove(t) ==
  /\ th[t].pc = "erase_remove"
  /\ hash_map_' = MapErase(hash_map_, acc[t].key)
  /\ acc' = [acc EXCEPT ![t] = NoAccessor]
  /\ th' = [th EXCEPT ![t].pc = "done", ![t].ret = 1]
  /\ nodes' = Sweep(nodes, hash_map_', th')
  /\ UNCHANGED <<current_size_, capacity_, listMutex_, hist>>
  /\ UNCHANGED htvars

\* ---- clear (not thread-safe: the caller guarantees no operation is in flight) ----
ClearCache ==
  /\ \A t \in Threads : th[t].pc = "idle"
  /\ hash_map_' = EmptyMap
  /\ nodes' = EmptyList
  /\ current_size_' = 0
  /\ UNCHANGED <<capacity_, listMutex_, acc, th>>
  /\ UNCHANGED htvars

Clear ==
  /\ ClearCache
  /\ Counted

\* ---- the concurrent program ----
Step(t) ==
  \/ InsertMap(t) \/ InsertRelease(t) \/ InsertLoad(t) \/ InsertLock(t)
  \/ InsertAppend(t) \/ InsertIncrement(t) \/ InsertCas(t)
  \/ PopLock(t) \/ PopUnlink(t) \/ PopFind(t) \/ PopErase(t)
  \/ FindMap(t) \/ FindCopy(t) \/ FindTryLock(t) \/ FindAppend(t)
  \/ EraseFind(t) \/ EraseCopy(t) \/ EraseCheck(t) \/ EraseLock(t)
  \/ EraseUnlink(t) \/ EraseHash(t) \/ EraseRemove(t)

Next ==
  \/ \E t \in Threads : CallInsert(t) \/ CallFind(t) \/ CallErase(t) \/ Return(t) \/ Step(t)
  \/ Clear

Spec == Init /\ [][Next]_vars

\* ---- the single-threaded client ----
\* one thread
STThreads == {1}

\* remember the cache as it is when the call is made
Snapshot == [hist EXCEPT !.preKeys = DOMAIN hash_map_, !.preSize = current_size_]

\* the keys still present, from the least to the most recently used: a successful insert
\* or find makes its key the most recent one, an erase forgets it
Touched(order, r) ==
  LET kept == SelectSeq(order, LAMBDA k : k \in DOMAIN hash_map_ /\ k # r.key)
  IN  IF r.op \in {"insert", "find"} /\ r.ret = 1
      THEN Append(kept, r.key)
      ELSE IF r.op = "erase" \/ r.key \notin DOMAIN hash_map_
           THEN kept
           ELSE SelectSeq(order, LAMBDA k : k \in DOMAIN hash_map_)

\* the call that has returned (the value and the eviction only of a successful insert),
\* and the new recency order; the snapshot is dropped
Record(r) ==
  [hist EXCEPT !.last = IF r.op = "insert" /\ r.ret = 1
                        THEN [op |-> r.op, key |-> r.key, val |-> r.val, ret |-> r.ret,
                              popped |-> r.popped]
                        ELSE [op |-> r.op, key |-> r.key, val |-> nullptr, ret |-> r.ret,
                              popped |-> FALSE],
               !.order = Touched(hist.order, r),
               !.preKeys = {}, !.preSize = 0]

STCallInsert(t) ==
  /\ \E k \in STKeys, v \in Vals : Invoke(t, "insert", k, v, "ins_map")
  /\ hist' = Snapshot

STCallFind(t) ==
  /\ \E k \in STKeys : Invoke(t, "find", k, nullptr, "find_map")
  /\ hist' = Snapshot

STCallErase(t) ==
  /\ \E k \in STKeys : Invoke(t, "erase", k, nullptr, "erase_map")
  /\ hist' = Snapshot

STReturn(t) ==
  /\ Leave(t)
  /\ hist' = Record(th[t])

STClear ==
  /\ ClearCache
  /\ hist' = [NoHist EXCEPT !.last.op = "clear"]

\* with one thread the test size > capacity_ after the increment is never true (see
\* STNeverOverCapacity), so InsertCas has no step here
STStep(t) ==
  \/ InsertMap(t) \/ InsertRelease(t) \/ InsertLoad(t) \/ InsertLock(t)
  \/ InsertAppend(t) \/ InsertIncrement(t)
  \/ PopLock(t) \/ PopUnlink(t) \/ PopFind(t) \/ PopErase(t)
  \/ FindMap(t) \/ FindCopy(t) \/ FindTryLock(t) \/ FindAppend(t)
  \/ EraseFind(t) \/ EraseCopy(t) \/ EraseCheck(t) \/ EraseLock(t)
  \/ EraseUnlink(t) \/ EraseHash(t) \/ EraseRemove(t)

NextST ==
  \/ \E t \in STThreads :
       STCallInsert(t) \/ STCallFind(t) \/ STCallErase(t) \/ STReturn(t) \/ STStep(t)
  \/ STClear

SpecST == Init /\ [][NextST]_vars

\* ---- the client of the intrusive hash table ----
\* the cache is not in use
LRUUnused ==
  /\ hash_map_ = EmptyMap
  /\ nodes = EmptyList
  /\ current_size_ = 0
  /\ capacity_ = 1
  /\ listMutex_ = nullptr
  /\ acc = [t \in Threads |-> NoAccessor]
  /\ th = [t \in Threads |-> IdleTh]
  /\ hist = NoHist

\* both constructors: IntrusiveHashTable(allowDuplicateKeys) and
\* IntrusiveHashTable(allowDuplicateKeys, sizeHint)
InitHT ==
  /\ LRUUnused
  /\ \E allow \in BOOLEAN :
       \/ HTIs(IntrusiveHashTable(allow))
       \/ \E sizeHint \in SizeHints : HTIs(allocate(IntrusiveHashTable(allow), sizeHint))
  /\ hthist = NoHTHist

\* the last call has returned
Running == hthist.last.ret # NoReturn

\* the call op(key, value) returns ret; r is the table afterwards.  A call that does not
\* return leaves nothing to observe, and no call follows it.  The const member functions
\* (find, countAllMatching, findAllMatching, getSize, ...) change nothing: what they return
\* in a state is given by their operators.
HTCall(op, key, value, r, ret) ==
  /\ hthist.calls < MaxHTCalls
  /\ IF ret = NoReturn THEN UNCHANGED <<table, bucketCount, usedBuckets, allowDupKeys,
                                        htNext, htKeyHash>>
     ELSE HTBecomes(r)
  /\ hthist' =
       [calls |-> hthist.calls + 1,
        last |-> [op |-> op, key |-> key, value |-> value, ret |-> ret,
                  wasAllocated |-> isAllocated(This)],
        insertsOnly |-> hthist.insertsOnly
                          /\ op \notin {"remove", "removeAllMatching", "clear", "deallocate"},
        inserted |-> IF op \in {"remove", "removeAllMatching", "clear", "deallocate"}
                     THEN <<>>
                     ELSE IF op = "insert" /\ ret = 1 /\ hthist.insertsOnly
                     THEN Append(hthist.inserted, value)
                     ELSE hthist.inserted]
  /\ UNCHANGED vars

HTAllocate ==
  /\ Running
  /\ \E sizeHint \in SizeHints :
       HTCall("allocate", nullptr, nullptr, allocate(This, sizeHint), 0)

HTAllocateDefault ==
  /\ Running
  /\ HTCall("allocate", nullptr, nullptr, allocate(This, DefaultCapacity), 0)

HTClear ==
  /\ Running
  /\ HTCall("clear", nullptr, nullptr, clear(This), 0)

HTDeallocate ==
  /\ Running
  /\ HTCall("deallocate", nullptr, nullptr, deallocate(This), 0)

HTSetAllowDuplicateKeys ==
  /\ Running
  /\ \E allow \in BOOLEAN :
       HTCall("setAllowDuplicateKeys", nullptr, nullptr,
              setAllowDuplicateKeys(This, allow), 0)

\* insert(key, value) with a value that is not linked (the call's precondition)
HTInsert ==
  /\ Running
  /\ \E key \in HTKeys, value \in HTNodes :
       /\ ~isLinkedToHashTable(This, value)
       /\ LET r == insert(This, key, value) IN HTCall("insert", key, value, r.s, r.ret)

HTRemove ==
  /\ Running
  /\ \E key \in HTKeys :
       LET r == remove(This, key) IN HTCall("remove", key, nullptr, r.s, r.ret)

HTRemoveAllMatching ==
  /\ Running
  /\ \E key \in HTKeys :
       LET r == removeAllMatching(This, key)
       IN  HTCall("removeAllMatching", key, nullptr, r.s, r.ret)

NextHT ==
  \/ HTAllocate \/ HTAllocateDefault \/ HTClear \/ HTDeallocate \/ HTSetAllowDuplicateKeys
  \/ HTInsert \/ HTRemove \/ HTRemoveAllMatching

allvars == <<vars, htvars>>

SpecHT == InitHT /\ [][NextHT]_allvars

\* ---- states ----
Quiescent == \A t \in Threads : th[t].pc \in {"idle", "done"}

\* the keys for which find() returns true
Present == DOMAIN hash_map_

\* ---- the claims ----

\* with one thread insert never sees size > capacity_, so it never reaches the CAS
STNeverOverCapacity == \A t \in STThreads : th[t].pc # "ins_cas"

\* C2: single thread, capacity >= 1: after every operation of any sequence of
\* insert/erase/find/clear, size() is the number of keys that find() finds, and
\* size() <= capacity.
C2_SizeIsCount ==
  /\ STNeverOverCapacity
  /\ (\A t \in STThreads : th[t].pc \in {"idle", "done"}) =>
       /\ current_size_ = Cardinality(Present)
       /\ current_size_ <= capacity_

\* an insert into a full cache has returned: it evicted, and the size is still the capacity
C2_Witness ==
  /\ th[1].pc = "done" /\ th[1].op = "insert" /\ th[1].ret = 1 /\ th[1].popped
  /\ capacity_ = MaxCapacity
  /\ current_size_ = capacity_
  /\ Cardinality(Present) = capacity_

\* C3: single thread: an insert of a new key removes another key only when
\* size() = capacity before the call, and then exactly one key, the one whose last
\* successful insert or find is the oldest; when size() < capacity it removes none.
C3_EvictsLeastRecent ==
  \A t \in STThreads :
    (th[t].pc = "done" /\ th[t].op = "insert" /\ th[t].ret = 1) =>
      IF hist.preSize = capacity_
      THEN /\ hist.order # <<>>
           /\ Present = (hist.preKeys \ {Head(hist.order)}) \cup {th[t].key}
      ELSE /\ hist.preSize < capacity_
           /\ Present = hist.preKeys \cup {th[t].key}

\* capacity 2: insert 1, insert 2, find 1, insert 3 has returned: 2 was evicted, not 1
C3_Witness ==
  /\ th[1].pc = "done" /\ th[1].op = "insert" /\ th[1].ret = 1 /\ th[1].key = 3
  /\ capacity_ = 2 /\ hist.preSize = 2
  /\ hist.preKeys = {1, 2}
  /\ hist.order = <<2, 1>>
  /\ hist.last.op = "find" /\ hist.last.key = 1 /\ hist.last.ret = 1
  /\ Present = {1, 3}

\* C5: single thread: after insert(k, v) returned true, the key is in the cache with
\* value v (the insert's own eviction never removes it), and a find(k) that follows
\* immediately returns true with a copy of v.
C5_FindAfterInsert ==
  \A t \in STThreads :
    th[t].pc = "done" =>
      /\ (th[t].op = "insert" /\ th[t].ret = 1) =>
           (th[t].key \in Present /\ hash_map_[th[t].key].value_ = th[t].val)
      /\ (th[t].op = "find" /\ hist.last.op = "insert" /\ hist.last.ret = 1
            /\ hist.last.key = th[t].key) =>
           (th[t].ret = 1 /\ th[t].out = hist.last.val)

\* a find has returned right after an insert of its key that had to evict
C5_Witness ==
  /\ th[1].pc = "done" /\ th[1].op = "find" /\ th[1].ret = 1
  /\ hist.last.op = "insert" /\ hist.last.ret = 1 /\ hist.last.popped
  /\ hist.last.key = th[1].key
  /\ th[1].out = hist.last.val
  /\ capacity_ = 1

\* C1: any interleaving of insert/find/erase: once every operation has returned,
\* size() <= capacity.
C1_QuiescentWithinCapacity == Quiescent => current_size_ <= capacity_

\* a step of thread t
Acts(t) == th'[t] # th[t]

\* the cache as a client can observe it: entries, recency order, size
Cache == <<hash_map_, ListKeys(nodes), ListNodes(nodes), current_size_>>

\* C4: insert(k, v2) when k is already in the map returns false and changes nothing:
\* the stored value, the set of keys, the recency order and the size stay as they are.
C4_DuplicateInsertIsNoOp ==
  [][\A t \in Threads :
       /\ (th[t].pc = "ins_map" /\ th[t].key \in Present /\ Acts(t)) =>
            (th'[t].pc = "ins_release" /\ ~th'[t].inserted /\ Cache' = Cache)
       /\ (th[t].pc = "ins_release" /\ ~th[t].inserted /\ Acts(t)) =>
            (th'[t].pc = "done" /\ th'[t].ret = 0 /\ Cache' = Cache)]_vars

\* an insert of a present key with another value has returned false; the old value stays
C4_Witness ==
  \E t \in Threads :
    /\ th[t].pc = "done" /\ th[t].op = "insert" /\ th[t].ret = 0
    /\ th[t].key \in Present
    /\ hash_map_[th[t].key].value_ # th[t].val
    /\ Len(ListKeys(nodes)) = 2

\* C6: whenever erase(k) finds k in the map, the entry it found is erased from the map
\* when erase returns, whether or not its node was linked.
C6_EraseRemovesFoundEntry ==
  \A t \in Threads :
    (th[t].pc = "done" /\ th[t].op = "erase" /\ th[t].node # nullptr) =>
      ~(th[t].key \in Present /\ hash_map_[th[t].key].listNode_ = th[t].node)

\* C7: the return value of erase is the number of entries that call removed: an erase
\* that did not unlink and remove the entry itself returns 0.
C7_EraseReturnsRemoved ==
  \A t \in Threads :
    (th[t].pc = "done" /\ th[t].op = "erase") =>
      th[t].ret = (IF th[t].marked THEN 1 ELSE 0)

\* C8: erase(k) for a key that is not in the map returns 0, find of such a key returns
\* false, and on an empty cache (no entry in the map, no operation in flight) size() = 0.
C8_EmptyCacheHasSizeZero ==
  /\ \A t \in Threads :
       (th[t].pc = "done" /\ th[t].op \in {"erase", "find"} /\ th[t].node = nullptr) =>
         th[t].ret = 0
  /\ (Quiescent /\ Present = {}) => current_size_ = 0

\* the frame of a miss (C8): an erase or a find of a key that is not in the map returns
\* 0 and leaves the map, the list and the size as they are; the cache is empty, with
\* size() = 0, when constructed and after clear().
C8_EraseMissIsNoOp ==
  /\ (Present = {} /\ ListKeys(nodes) = <<>> /\ current_size_ = 0)
  /\ [][/\ \A t \in Threads :
             (th[t].pc \in {"erase_map", "find_map"} /\ th[t].key \notin Present /\ Acts(t)) =>
               (th'[t].pc = "done" /\ th'[t].ret = 0 /\ Cache' = Cache)
        /\ (Quiescent /\ <<hash_map_, nodes>> # <<hash_map_', nodes'>> /\ th' = th) =>
             (Present' = {} /\ ListKeys(nodes') = <<>> /\ current_size_' = 0)]_vars

\* an erase of an absent key has returned 0 on a cache that holds other keys
C8_Witness ==
  \E t \in Threads :
    /\ th[t].pc = "done" /\ th[t].op = "erase" /\ th[t].ret = 0
    /\ th[t].key \notin Present
    /\ Present # {}
    /\ current_size_ = Cardinality(Present)

\* a thread in the middle of an operation
Busy(t) == th[t].pc \notin {"idle", "done"}

\* C9: no thread holds the list mutex while it acquires or holds a per-key map lock, nor
\* a per-key map lock while it acquires or holds the list mutex; and the threads never
\* deadlock: while some operation is in flight, some operation in flight can take a step.
C9_LockOrder ==
  /\ \A t \in Threads : ~(listMutex_ = t /\ acc[t] # NoAccessor)
  /\ (\E t \in Threads : Busy(t)) => (\E t \in Threads : Busy(t) /\ ENABLED Step(t))

\* popFront has released the list mutex and holds the map lock of its candidate's key,
\* while another thread holds the list mutex
C9_Witness ==
  \E t, u \in Threads :
    /\ t # u
    /\ th[t].pc = "pop_erase" /\ acc[t] # NoAccessor
    /\ listMutex_ = u

\* C10: find never waits for the list mutex: at its promotion step it can always go on;
\* if another thread holds the mutex, find leaves the list alone and returns true with
\* the value it copied; if it gets the mutex and the node is linked, the node becomes the
\* most recently used one (just before tail_).
C10_FindNeverWaits ==
  [][\A t \in Threads :
       /\ th[t].pc = "find_trylock" => ENABLED FindTryLock(t)
       /\ (th[t].pc = "find_trylock" /\ listMutex_ # nullptr /\ Acts(t)) =>
            /\ th'[t].pc = "done" /\ th'[t].ret = 1 /\ th'[t].out = th[t].out
            /\ nodes' = nodes /\ listMutex_' = listMutex_
       /\ (th[t].pc = "find_trylock" /\ listMutex_ = nullptr /\ inList(nodes, th[t].node)
             /\ Acts(t)) =>
            (th'[t].pc = "find_append" /\ listMutex_' = t)
       /\ (th[t].pc = "find_append" /\ Acts(t)) =>
            /\ nodes'[TailNode].prev_ = th[t].node
            /\ nodes'[th[t].node].next_ = TailNode
            /\ th'[t].pc = "done" /\ th'[t].ret = 1]_vars

\* a find has returned true with its copy although the list mutex was held by another thread
C10_Witness ==
  \E t, u \in Threads :
    /\ t # u
    /\ th[t].pc = "done" /\ th[t].op = "find" /\ th[t].ret = 1 /\ ~th[t].lock
    /\ th[t].out # nullptr
    /\ listMutex_ = u
    /\ inList(nodes, th[t].node)
    /\ nodes[TailNode].prev_ # th[t].node

\* C11: concurrent insert/find/erase: once all operations have returned, size() equals
\* the number of keys present in the map.
C11_SizeConverges == Quiescent => current_size_ = Cardinality(Present)

\* C12: at every quiescent point: each key of the map has exactly one linked node, and it
\* is between head_ and tail_; the traversal by next_ from head_ ends at tail_, the
\* traversal by prev_ from tail_ ends at head_ and meets the same nodes in reverse order
\* (n.next.prev = n for head_ and every node); head_.next_ = &tail_ and
\* tail_.prev_ = &head_ iff no node is linked.
C12_ListWellFormed ==
  Quiescent =>
    LET fwd == ListNodes(nodes)
        bwd == ListNodesBack(nodes)
        linked == {n \in NodeIds : inList(nodes, n)}
        onList == {fwd[i] : i \in 1..Len(fwd)}
    IN  /\ \A k \in Present :
             /\ Cardinality({n \in linked : nodes[n].key_ = k}) = 1
             /\ Cardinality({i \in 1..Len(fwd) : nodes[fwd[i]].key_ = k}) = 1
        /\ onList \subseteq linked
        /\ nodes[IF fwd = <<>> THEN HeadNode ELSE fwd[Len(fwd)]].next_ = TailNode
        /\ nodes[IF bwd = <<>> THEN TailNode ELSE bwd[Len(bwd)]].prev_ = HeadNode
        /\ Len(bwd) = Len(fwd)
        /\ \A i \in 1..Len(fwd) : bwd[i] = fwd[Len(fwd) + 1 - i]
        /\ \A n \in onList \cup {HeadNode} : nodes[nodes[n].next_].prev_ = n
        /\ (nodes[HeadNode].next_ = TailNode) <=> (linked = {})
        /\ (nodes[TailNode].prev_ = HeadNode) <=> (linked = {})

\* two keys are linked, after an insert that evicted and a find that moved the other
\* node to the most recently used end
C12_Witness ==
  /\ Quiescent
  /\ Len(ListNodes(nodes)) = 2
  /\ Cardinality(Present) = 2
  /\ \E t, u \in Threads :
       /\ t # u
       /\ th[t].pc = "done" /\ th[t].op = "find" /\ th[t].lock
       /\ nodes[TailNode].prev_ = th[t].node
       /\ th[u].pc = "done" /\ th[u].op = "insert" /\ th[u].ret = 1 /\ th[u].popped
       /\ nodes[HeadNode].next_ = th[u].node

\* ---- properties of the intrusive hash table ----
\* the nodes that are linked, and whether the table has none
LinkedNodes(s) == {n \in HTNodes : isLinkedToHashTable(s, n)}

\* C13: with no node linked: insert(k, v) returns true, then find(k) = v, then
\* remove(k) = v, then find(k) = null; v is linked exactly between the insert and the
\* remove; remove resets v's hash to 0 and its htNext to null; find and remove on a table
\* that is not allocated return null and allocate nothing.
C13_InsertFindRemove ==
  /\ LinkedNodes(This) = {} =>
       \A k \in HTKeys, v \in HTNodes :
         LET i == insert(This, k, v)
             r == remove(i.s, k)
         IN  /\ i.ret = 1
             /\ LinkedNodes(i.s) = {v}
             /\ find(i.s, k) = v
             /\ r.ret = v
             /\ LinkedNodes(r.s) = {}
             /\ r.s.htKeyHash[v] = 0 /\ r.s.htNext[v] = nullptr
             /\ find(r.s, k) = nullptr
  /\ ~isAllocated(This) =>
       \A k \in HTKeys :
         /\ find(This, k) = nullptr
         /\ remove(This, k) = [s |-> This, ret |-> nullptr]
         /\ ~isAllocated(remove(This, k).s)

\* the second call of a run removed the node that the first call inserted
C13_Witness ==
  /\ hthist.calls = 2
  /\ hthist.last.op = "remove" /\ hthist.last.ret \in HTNodes
  /\ find(This, hthist.last.key) = nullptr
  /\ LinkedNodes(This) = {}
  /\ isAllocated(This)

\* C14: duplicates disallowed: insert(k, v2) while a linked node has the hash of k
\* returns false and changes nothing: v2 stays unlinked, usedBuckets and every chain are
\* as before, and find(k) returns the node it returned before.
C14_DuplicateRejected ==
  ~allowDupKeys =>
    \A k \in HTKeys :
      (\E n \in LinkedNodes(This) : htKeyHash[n] = hashOf(k)) =>
        \A v2 \in HTNodes \ LinkedNodes(This) :
          LET i == insert(This, k, v2)
          IN  /\ i.ret = 0
              /\ i.s = This
              /\ find(i.s, k) \in LinkedNodes(This) \ {v2}
              /\ htKeyHash[find(i.s, k)] = hashOf(k)

\* an insert has just been rejected, and the node with that hash is still found
C14_Witness ==
  /\ hthist.last.op = "insert" /\ hthist.last.ret = 0
  /\ ~allowDupKeys
  /\ ~isLinkedToHashTable(This, hthist.last.value)
  /\ find(This, hthist.last.key) \in HTNodes \ {hthist.last.value}
  /\ usedBuckets = 1

\* the nodes inserted so far with the hash of a key, most recent first
RECURSIVE MatchingMostRecentFirst(_, _)
MatchingMostRecentFirst(inserted, keyHash) ==
  IF inserted = <<>> THEN <<>>
  ELSE LET n == inserted[Len(inserted)]
           rest == MatchingMostRecentFirst(SubSeq(inserted, 1, Len(inserted) - 1), keyHash)
       IN  IF htKeyHash[n] = keyHash THEN <<n>> \o rest ELSE rest

Min(a, b) == IF a < b THEN a ELSE b

\* C15: duplicates allowed, inserts only: after N inserts of distinct nodes with keys of
\* one hash (other hashes of the same bucket in between), countAllMatching(k) = N and
\* findAllMatching(k, out, max) returns min(N, max), writes that many distinct nodes in
\* chain order (most recent insert first), and writes nothing past out[max - 1].
C15_CountAndFindAll ==
  (allowDupKeys /\ hthist.insertsOnly) =>
    \A k \in HTKeys :
      LET expected == MatchingMostRecentFirst(hthist.inserted, hashOf(k))
          N == Len(expected)
      IN  /\ countAllMatching(This, k) = N
          /\ \A maxItems \in 1..MaxItems :
               LET f == findAllMatching(This, k, maxItems)
               IN  /\ f.ret = Min(N, maxItems)
                   /\ Len(f.items) = f.ret
                   /\ Len(f.items) <= maxItems
                   /\ f.items = SubSeq(expected, 1, f.ret)
                   /\ \A x, y \in 1..Len(f.items) : x # y => f.items[x] # f.items[y]

\* three nodes went into one bucket: two with one hash and, between them, one with another
C15_Witness ==
  /\ allowDupKeys /\ hthist.insertsOnly
  /\ hthist.last.op = "insert" /\ hthist.last.ret = 1
  /\ Len(hthist.inserted) = 3
  /\ htKeyHash[hthist.inserted[1]] = htKeyHash[hthist.inserted[3]]
  /\ htKeyHash[hthist.inserted[2]] # htKeyHash[hthist.inserted[1]]
  /\ bucketOf(This, htKeyHash[hthist.inserted[2]]) = bucketOf(This, htKeyHash[hthist.inserted[1]])
  /\ countAllMatching(This, hthist.last.key) = 2
  /\ findAllMatching(This, hthist.last.key, 1).items = <<hthist.inserted[3]>>

\* C16: after clear() every node is reset, usedBuckets is 0 and every bucket slot holds a
\* null head: the table equals a freshly allocated one of the same bucket count.
C16_ClearLeavesFreshTable ==
  hthist.last.op = "clear" =>
    This = (IF isAllocated(This)
            THEN allocate(IntrusiveHashTable(allowDupKeys), bucketCount)
            ELSE IntrusiveHashTable(allowDupKeys))

\* C17: getSize() is the number of linked nodes, and isEmpty() holds iff no node is linked.
C17_SizeIsLinkedCount ==
  /\ getSize(This) = Cardinality(LinkedNodes(This))
  /\ isEmpty(This) <=> LinkedNodes(This) = {}

\* a remove has just taken one node out of three
C17_Witness ==
  /\ hthist.last.op \in {"remove", "removeAllMatching"}
  /\ hthist.last.ret # 0 /\ hthist.last.ret # nullptr
  /\ Cardinality(LinkedNodes(This)) = 2
  /\ getSize(This) = 2

\* C18: every linked node is on the chain of exactly one bucket, the bucket of its cached
\* hash modulo bucketCount; also a node that clear() unlinked and that was then inserted
\* under a key of another bucket.
C18_OneBucketPerNode ==
  \A n \in LinkedNodes(This) :
    {b \in DOMAIN table : table[b] # nullptr /\ n \in ChainNodes(This, table[b], NumHTNodes)}
      = {bucketOf(This, htKeyHash[n])}

\* primality by trial division
TruePrime(x) == x > 1 /\ \A d \in 2..(x - 1) : x % d # 0

\* the smallest prime that is not below the hint
SmallestPrimeFrom ==
  [hint \in SizeHints \cup {DefaultCapacity} |->
     CHOOSE p \in hint..(2 * hint + 2) :
       TruePrime(p) /\ \A q \in hint..(p - 1) : ~TruePrime(q)]

\* isPrime is primality on every value that an allocation can try
IsPrimeIsPrimality == \A x \in 0..DefaultCapacity : isPrime(x) <=> TruePrime(x)

\* C19: allocate(hint) on a table that is not allocated gives it the smallest prime >=
\* hint as bucket count (2053 without a hint), all buckets null; isPrime agrees with
\* primality (0, 1, 2, 3, 25, 49 included); allocate on an allocated table changes
\* nothing; deallocate on a deallocated table changes nothing.
C19_AllocateSizes ==
  LET t == This
      d == deallocate(t)
      hints == SizeHints \cup {DefaultCapacity}
  IN  /\ IsPrimeIsPrimality
      /\ allocate(IntrusiveHashTable(allowDupKeys), DefaultCapacity).bucketCount = 2053
      /\ IF isAllocated(t)
         THEN /\ \A hint \in hints : allocate(t, hint) = t
              /\ ~isAllocated(d)
              /\ deallocate(d) = d
         ELSE /\ \A hint \in hints :
                   /\ isAllocated(allocate(t, hint))
                   /\ allocate(t, hint) =
                        [t EXCEPT !.bucketCount = SmallestPrimeFrom[hint],
                                  !.table = [b \in 0..(SmallestPrimeFrom[hint] - 1) |-> nullptr]]
              /\ d = t
      /\ (hthist.last.op = "allocate" /\ hthist.last.wasAllocated) => isAllocated(t)
      /\ (hthist.last.op = "deallocate" /\ ~hthist.last.wasAllocated) => ~isAllocated(t)

\* allocate(49) has just allocated a table that was deallocated before
C19_Witness ==
  /\ hthist.last.op = "allocate" /\ ~hthist.last.wasAllocated
  /\ hthist.calls >= 2
  /\ bucketCount = 53
  /\ table = [b \in 0..52 |-> nullptr]

\* C20: while duplicates are disallowed, countAllMatching(k) <= 1 for every key, also
\* after setAllowDuplicateKeys(true), inserts of nodes with one hash, and
\* setAllowDuplicateKeys(false).
C20_AtMostOnePerKey ==
  ~allowDupKeys => \A k \in HTKeys : countAllMatching(This, k) <= 1

\* the chain from item as a sequence, by htNext (cut off after fuel items)
RECURSIVE ChainSeq(_, _, _)
ChainSeq(s, item, fuel) ==
  IF item = nullptr \/ fuel = 0 THEN <<>>
  ELSE <<item>> \o ChainSeq(s, s.htNext[item], fuel - 1)

\* a sequence without the items of a set
RECURSIVE Without(_, _)
Without(seq, gone) ==
  IF seq = <<>> THEN <<>>
  ELSE IF Head(seq) \in gone THEN Without(Tail(seq), gone)
  ELSE <<Head(seq)>> \o Without(Tail(seq), gone)

\* the chain of a bucket ends in null after at most NumHTNodes items, none of them twice
ChainEnds(s, b) ==
  LET c == ChainSeq(s, s.table[b], NumHTNodes + 1)
  IN  /\ Len(c) <= NumHTNodes
      /\ \A x, y \in 1..Len(c) : x # y => c[x] # c[y]

\* every chain ends, and holds linked nodes of its own bucket only
ChainsIntact(s) ==
  \A b \in DOMAIN s.table :
    s.table[b] # nullptr =>
      /\ ChainEnds(s, b)
      /\ \A n \in ChainNodes(s, s.table[b], NumHTNodes) :
           isLinkedToHashTable(s, n) /\ bucketOf(s, s.htKeyHash[n]) = b

\* C24: removeAllMatching(k) on a chain that mixes nodes of the hash of k with nodes of
\* other hashes returns the number of matching nodes, resets each of them (hash 0, htNext
\* null), lowers usedBuckets by that number, and leaves every other node linked, findable
\* and in its place in the chain order; with three equal-hash nodes it returns 3 and the
\* table is empty.
C24_RemoveAllMatching ==
  (isAllocated(This) /\ ChainsIntact(This)) =>
    \A k \in HTKeys :
      LET r == removeAllMatching(This, k)
          matching == {n \in LinkedNodes(This) : htKeyHash[n] = hashOf(k)}
          b == bucketOf(This, hashOf(k))
      IN  /\ r.ret = Cardinality(matching)
          /\ \A n \in matching : r.s.htKeyHash[n] = 0 /\ r.s.htNext[n] = nullptr
          /\ r.s.usedBuckets = usedBuckets - r.ret
          /\ LinkedNodes(r.s) = LinkedNodes(This) \ matching
          /\ \A n \in LinkedNodes(This) \ matching : r.s.htKeyHash[n] = htKeyHash[n]
          /\ ChainSeq(r.s, r.s.table[b], NumHTNodes) =
               Without(ChainSeq(This, table[b], NumHTNodes), matching)
          /\ \A c \in DOMAIN table : c # b => r.s.table[c] = table[c]
          /\ \A k2 \in HTKeys :
               hashOf(k2) # hashOf(k) =>
                 /\ find(r.s, k2) = find(This, k2)
                 /\ countAllMatching(r.s, k2) = countAllMatching(This, k2)
          /\ (Cardinality(matching) = NumHTNodes) => isEmpty(r.s)

\* removeAllMatching has just taken two equal-hash nodes out of a bucket that also holds
\* a node of another hash, which is still found
C24_Witness ==
  /\ hthist.last.op = "removeAllMatching" /\ hthist.last.ret = 2
  /\ hthist.calls = 4
  /\ usedBuckets = 1
  /\ \E n \in LinkedNodes(This), k2 \in HTKeys :
       /\ hashOf(k2) = htKeyHash[n]
       /\ bucketOf(This, htKeyHash[n]) = bucketOf(This, hashOf(hthist.last.key))
       /\ find(This, k2) = n
       /\ table[bucketOf(This, htKeyHash[n])] = n /\ htNext[n] = nullptr
       /\ \A m \in HTNodes \ {n} : htKeyHash[m] = 0 /\ htNext[m] = nullptr

\* C25: after any sequence of insert, remove, removeAllMatching and clear calls that
\* respect the preconditions, every bucket chain is finite, acyclic and null-terminated,
\* and find, countAllMatching, findAllMatching, remove and removeAllMatching return; also
\* when a node unlinked by clear() is inserted again into the bucket it headed.
C25_ChainsTerminate ==
  /\ \A b \in DOMAIN table : ChainEnds(This, b)
  /\ \A k \in HTKeys :
       /\ find(This, k) # NoReturn
       /\ countAllMatching(This, k) # NoReturn
       /\ findAllMatching(This, k, MaxItems).ret # NoReturn
       /\ remove(This, k).ret # NoReturn
       /\ removeAllMatching(This, k).ret # NoReturn
  /\ hthist.last.ret # NoReturn

\* ---- properties of the cache's list nodes ----
\* thread u holds the list mutex and its next step writes prev_ of node n
AboutToLinkOrUnlink(u, n) ==
  /\ listMutex_ = u
  /\ \/ th[u].pc = "ins_append" /\ th[u].node = n
     \/ th[u].pc = "find_append" /\ th[u].node = n
     \/ th[u].pc = "erase_unlink" /\ th[u].node = n /\ inList(nodes, n)
     \/ th[u].pc = "pop_unlink" /\ nodes[HeadNode].next_ = n

\* C21: no operation reads the linked flag of a node (inList(): prev_ != NullNodePtr)
\* without holding the list mutex while another thread holds the mutex and is about to
\* unlink or append that node.
C21_LinkedFlagUnderMutex ==
  \A t, u \in Threads :
    t # u =>
      ~(/\ th[t].pc = "erase_check"
        /\ listMutex_ # t
        /\ AboutToLinkOrUnlink(u, th[t].node))

\* the map entry of node n's key holds n as its handle
OwnedByMap(n) ==
  /\ nodes[n].key_ \in DOMAIN hash_map_
  /\ hash_map_[nodes[n].key_].listNode_ = n

\* the step is clear()
ClearStep == (\A t \in Threads : th[t].pc = "idle") /\ hash_map_' = EmptyMap /\ nodes' = EmptyList

\* the step erases the entry of key k after the thread itself has unlinked the entry's node
ErasedByUnlinker(k) ==
  \E t \in Threads :
    \/ /\ th[t].pc = "erase_remove" /\ th[t].marked
       /\ th[t].key = k /\ th[t].node = hash_map_[k].listNode_
       /\ ~inList(nodes, th[t].node)
    \/ /\ th[t].pc = "pop_erase"
       /\ nodes[th[t].cand].key_ = k /\ th[t].cand = hash_map_[k].listNode_
       /\ ~inList(nodes, th[t].cand)

\* C23: in every state of every interleaving of insert, find, erase and popFront, also
\* in the middle of operations: every node linked between the sentinels has its key in
\* the map with that node as the entry's handle, and every node on the walk from head_ is
\* such a node; the candidate that popFront reads after it released the list mutex is a
\* live node owned by the entry of its key, and that entry is the one popFront erases; a
\* map entry is erased only by the operation that unlinked its node before.
C23_LinkedNodesOwnedByMap ==
  /\ [](/\ \A n \in NodeIds : inList(nodes, n) => OwnedByMap(n)
        /\ \A i \in 1..Len(ListNodes(nodes)) :
             ListNodes(nodes)[i] = TailNode \/ inList(nodes, ListNodes(nodes)[i])
        /\ \A t \in Threads :
             th[t].pc \in {"pop_find", "pop_erase"} =>
               /\ nodes[th[t].cand] # FreeNode
               /\ ~inList(nodes, th[t].cand)
               /\ OwnedByMap(th[t].cand)
               /\ th[t].pc = "pop_erase" => acc[t].key = nodes[th[t].cand].key_)
  /\ [][\A k \in DOMAIN hash_map_ :
          k \notin DOMAIN hash_map_' => (ClearStep \/ ErasedByUnlinker(k))]_vars

\* popFront has unlinked its candidate and released the list mutex; meanwhile another
\* thread's erase of the candidate's key has returned, and the entry is still there
C23_Witness ==
  \E t, u \in Threads :
    /\ t # u
    /\ th[t].pc = "pop_find" /\ listMutex_ = nullptr
    /\ th[u].op = "erase" /\ th[u].pc = "done" /\ th[u].ret = 1
    /\ th[u].key = nodes[th[t].cand].key_
    /\ OwnedByMap(th[t].cand)

\* node n was linked and then unlinked by erase or popFront: unlink leaves next_ as it
\* was, a node that was never linked has next_ = nullptr, and a node that find has
\* unlinked is appended again by the same find before it gives up the list mutex
UnlinkedForGood(n) ==
  /\ nodes[n].prev_ = NullNodePtr
  /\ nodes[n].next_ # nullptr
  /\ ~\E t \in Threads : th[t].pc = "find_append" /\ th[t].node = n

\* the step of thread t unlinks node n / appends node n
UnlinkStep(t, n) ==
  \/ th[t].pc = "erase_unlink" /\ th'[t].marked /\ th[t].node = n
  \/ th[t].pc = "pop_unlink" /\ th'[t].pc = "pop_find" /\ th'[t].cand = n
  \/ th[t].pc = "find_trylock" /\ th'[t].pc = "find_append" /\ th[t].node = n
AppendStep(t, n) ==
  \/ th[t].pc = "ins_append" /\ th'[t].pc = "ins_inc" /\ th[t].node = n
  \/ th[t].pc = "find_append" /\ th'[t].pc = "done" /\ th[t].node = n

\* insert's own node before and after its append
InsertNotYetAppended(r) ==
  \/ r.pc \in {"ins_load", "ins_lock", "ins_append"}
  \/ r.pc = "ins_release" /\ r.inserted
  \/ r.pc \in {"pop_lock", "pop_unlink", "pop_find", "pop_erase"} /\ r.after = "ins_lock"
InsertAppended(r) ==
  \/ r.pc \in {"ins_inc", "ins_cas"}
  \/ r.pc \in {"pop_lock", "pop_unlink", "pop_find", "pop_erase"} /\ r.after # "ins_lock"
  \/ r.pc = "done" /\ r.ret = 1

\* C22: under any interleaving of insert, find, erase and popFront: unlink is applied
\* only to a linked node and append only to an unlinked node, and the linked flag changes
\* by these steps only, so a link is followed by at most one unlink; the node of an insert
\* has never been linked before insert's append and has been linked after it (insert
\* returned true: appended once, by insert); a node unlinked by erase or popFront is
\* never linked again.
C22_NodeStateMachine ==
  /\ [](\A t \in Threads :
          th[t].op = "insert" =>
            /\ InsertNotYetAppended(th[t]) => nodes[th[t].node] = ListNode(th[t].key)
            /\ InsertAppended(th[t]) => nodes[th[t].node].next_ # nullptr)
  /\ [][\A n \in NodeIds :
          /\ \A t \in Threads :
               /\ UnlinkStep(t, n) => (inList(nodes, n) /\ ~inList(nodes', n))
               /\ AppendStep(t, n) => (~inList(nodes, n) /\ inList(nodes', n))
          /\ (inList(nodes, n) /\ ~inList(nodes', n)) =>
               (ClearStep \/ \E t \in Threads : UnlinkStep(t, n))
          /\ (~inList(nodes, n) /\ inList(nodes', n)) => \E t \in Threads : AppendStep(t, n)
          /\ UnlinkedForGood(n) => ~inList(nodes', n)]_vars

\* a find holds the node that another thread's erase has unlinked, and its own test of
\* inList() under the list mutex has left the node alone
C22_Witness ==
  \E t, u \in Threads :
    /\ t # u
    /\ th[t].op = "find" /\ th[t].pc = "done" /\ th[t].lock
    /\ th[u].op = "erase" /\ th[u].marked
    /\ th[t].node = th[u].node
    /\ UnlinkedForGood(th[t].node)

====
